---- MODULE Spec2Model ----
(***************************************************************************)
(* The CP2K easyblock (easybuild/easyblocks/c/cp2k.py) as a state machine. *)
(*                                                                         *)
(* A Python string is a sequence of atoms; an atom is a piece of text that *)
(* the code never looks inside (a word, a blank, a path component).        *)
(* Concatenation is \o, and str.replace / regular-expression search work   *)
(* on the atoms the way the Python versions work on the characters.  The   *)
(* two link-group markers are two atoms each ("-Wl,--start" "-group" and   *)
(* "-Wl,--end" "-group"), so that text around a removed marker can close   *)
(* up into a new marker exactly as it can in Python.                       *)
(*                                                                         *)
(* Python's None is the one-atom sequence None.  An exception leaving a    *)
(* method is the non-empty field err of the method's result.               *)
(***************************************************************************)
EXTENDS Integers, Sequences, FiniteSets, TLC

VARIABLES env, tk, world, pc, step, err, self, cfg, fs, cmds, cwd, log, options

vars == <<env, tk, world, pc, step, err, self, cfg, fs, cmds, cwd, log, options>>

----------------------------------------------------------------------------
(* Strings *)

None == <<"<None>">>

\* '%s' % v
Str(v) == IF v = None THEN <<"None">> ELSE v

\* Python truth value of a string or None
Truthy(v) == v # None /\ v # <<>>

SP == <<" ">>
NL == <<"\n">>

StartsWith(s, p) == Len(s) >= Len(p) /\ SubSeq(s, 1, Len(p)) = p

EndsWith(s, p) == Len(s) >= Len(p) /\ SubSeq(s, Len(s) - Len(p) + 1, Len(s)) = p

Drop(s, n) == SubSeq(s, n + 1, Len(s))

\* every index at which p occurs in s (occurrences may overlap)
Occurrences(s, p) == {i \in 1..(Len(s) - Len(p) + 1) : SubSeq(s, i, i + Len(p) - 1) = p}

Contains(s, p) == Occurrences(s, p) # {}

\* str.replace(old, new): one pass, left to right, over non-overlapping matches
RECURSIVE Replace(_, _, _)
Replace(s, old, new) ==
    IF s = <<>> THEN <<>>
    ELSE IF StartsWith(s, old) THEN new \o Replace(Drop(s, Len(old)), old, new)
    ELSE <<Head(s)>> \o Replace(Tail(s), old, new)

\* ' '.join(list)
RECURSIVE Join(_)
Join(list) ==
    IF list = <<>> THEN <<>>
    ELSE IF Len(list) = 1 THEN Head(list)
    ELSE Head(list) \o SP \o Join(Tail(list))

\* str.split('.')[0]
RECURSIVE SplitDotFirst(_)
SplitDotFirst(s) ==
    IF s = <<>> \/ Head(s) = "." THEN <<>> ELSE <<Head(s)>> \o SplitDotFirst(Tail(s))

\* os.getenv(name)
getenv(name) == env[name]

\* os.environ.has_key(name)
has_key(name) == env[name] # None

----------------------------------------------------------------------------
(* Dictionaries: functions from keys to strings *)

\* dict.update(u)
Update(o, u) == [k \in DOMAIN o \cup DOMAIN u |-> IF k \in DOMAIN u THEN u[k] ELSE o[k]]

\* o[k] = v
Put(o, k, v) == [x \in DOMAIN o \cup {k} |-> IF x = k THEN v ELSE o[x]]

\* the result of a method: the exception that left it ("" when it returned),
\* the machine it leaves behind and, for the configure layers, the options
Res(e, m, o) == [err |-> e, m |-> m, options |-> o]

NoOptions == [k \in {} |-> <<>>]

\* self.log.info / self.log.warning: one more log record
Logged(m, level, what) == [m EXCEPT !.log = Append(@, <<level, what>>)]

\* self.log.error(msg): the host framework's logger records the message and
\* raises, which ends the build step
LogError(m, what) == Res(what, Logged(m, "error", what), NoOptions)

\* an uncaught Python exception (TypeError, AttributeError, ...)
Crash(m, what) == Res(what, m, NoOptions)

\* self.updatecfg(key, value): the framework appends to the current value
updatecfg(m, key, value) == [m EXCEPT !.cfg[key] = @ \o SP \o value \o SP]

----------------------------------------------------------------------------
(* The host framework's services used by the easyblock *)

\* run_cmd(cmd, log_all=True, ...): runs the command; every call of this
\* easyblock passes log_all=True, with which a non-zero exit status is
\* logged as an error, and that raises.  ec is the command's exit status.
run_cmd(m, cmd, ec) ==
    LET m1 == [m EXCEPT !.cmds = Append(@, cmd)]
    IN  IF ec # 0 THEN LogError(m1, "cmd exited with non-zero exitcode")
        ELSE Res("", m1, NoOptions)

----------------------------------------------------------------------------
(* Names and fixed texts of cp2k.py *)

StartGroup == <<"-Wl,--start", "-group">>
EndGroup == <<"-Wl,--end", "-group">>

mpi2libs == <<"impi", "MVAPICH2", "OpenMPI">>

\* 'SOFTROOT%s' % mpi2lib.upper()
SoftrootOf(lib) ==
    CASE lib = "impi" -> "SOFTROOTIMPI"
      [] lib = "MVAPICH2" -> "SOFTROOTMVAPICH2"
      [] lib = "OpenMPI" -> "SOFTROOTOPENMPI"

Libint1Libs == <<"$(LIBINTLIB)/libderiv.a", " ", "$(LIBINTLIB)/libint.a", " ", "$(LIBINTLIB)/libr12.a">>
Libint2Libs == <<"$(LIBINTLIB)/libint2.a">>

GraphconRule == <<"graphcon.o: graphcon.F", "\n", "\t$(FC) -c $(FCFLAGS2) $<", "\n">>
QsVxcAtomRule == <<"qs_vxc_atom.o: qs_vxc_atom.F", "\n", "\t$(FC) -c $(FCFLAGS2) $<", "\n">>
EtCouplingRule == <<"et_coupling.o: et_coupling.F", "\n", "\t$(FC) -c $(FCFLAGS2) $<", "\n">>

----------------------------------------------------------------------------
(* configureCommon *)

\* a check that knows Intel MPI only
HasMpi2IntelOnly == Truthy(getenv("SOFTROOTIMPI"))

\* lines 229-239: is a MPI-2 able MPI library loaded
HasMpi2 == \E i \in 1..Len(mpi2libs) : Truthy(getenv(SoftrootOf(mpi2libs[i])))

\* lines 241-267: the options every toolkit starts from
CommonOptions(m) ==
    LET optflags == IF m.cfg.typeopt THEN "OPT" ELSE "NOOPT"
        regflags == IF m.cfg.typeopt THEN "OPT2" ELSE "NOOPT"
    IN  ("CC" :> getenv("MPICC")) @@
        ("CPP" :> <<>>) @@
        ("FC" :> Str(getenv("MPIF77")) \o SP \o m.self.openmp) @@
        ("LD" :> Str(getenv("MPIF77")) \o SP \o m.self.openmp) @@
        ("AR" :> <<"ar -r">>) @@
        ("CPPFLAGS" :> <<>>) @@
        ("FPIC" :> m.self.fpic) @@
        ("DEBUG" :> m.self.debug) @@
        ("FCFLAGS" :> <<"$(FCFLAGS", optflags, ")">>) @@
        ("FCFLAGS2" :> <<"$(FCFLAGS", regflags, ")">>) @@
        ("CFLAGS" :> SP \o Str(getenv("SOFTVARCPPFLAGS")) \o SP \o Str(getenv("SOFTVARLDFLAGS"))
                        \o <<" ", "$(FPIC)", " ", "$(DEBUG)", " ">> \o m.cfg.extracflags \o SP) @@
        ("DFLAGS" :> <<" ", "-D__parallel", " ", "-D__BLACS", " ", "-D__SCALAPACK", " ", "-D__FFTSG", " ">>
                        \o m.cfg.extradflags) @@
        ("LIBS" :> getenv("LIBS")) @@
        ("FCFLAGSNOOPT" :> <<"$(DFLAGS) $(CFLAGS) -O0  $(FREE) $(FPIC) $(DEBUG)">>) @@
        ("FCFLAGSOPT" :> <<"-O2 $(FREE) $(SAFE) $(FPIC) $(DEBUG)">>) @@
        ("FCFLAGSOPT2" :> <<"-O1 $(FREE) $(SAFE) $(FPIC) $(DEBUG)">>)

\* lines 286-301: build the LibInt wrapper for compilers without ISO_C_BINDING;
\* the result's options hold the one key "wrapper", the object file's path
LibintWrapper(m, softrootlibint) ==
    LET libintcompiler == Str(getenv("CC")) \o SP \o Str(getenv("CFLAGS"))
        paths == <<"libint_tools", "tools/hfx_tools/libint_tools">>
        found == {i \in 1..2 : paths[i] \in m.fs.dirs}
        newest == CHOOSE i \in found : \A j \in found : j <= i
        libinttools_path == m.cfg.startfrom \o <<"/", paths[newest]>>
        m1 == [m EXCEPT !.cwd = libinttools_path]
        cmd == libintcompiler \o <<" ", "-c", " ", "libint_cpp_wrapper.cpp", " ", "-I">>
                   \o softrootlibint \o <<"/include">>
        r == run_cmd(m1, cmd, world.ec["wrapper"])
    IN  IF found = {} THEN LogError(m, "No libinttools dir found")
        ELSE IF r.err # "" THEN r
        ELSE Res("", r.m, "wrapper" :> (libinttools_path \o <<"/libint_cpp_wrapper.o">>))

\* a choice that takes every major version but 1 for version 2
LibintLibsNoElse(libint_maj_ver) ==
    IF libint_maj_ver = <<"1">> THEN Libint1Libs ELSE Libint2Libs

\* lines 303-311: the LibInt libraries for a major version; <<>> stands for
\* the versions the code does not know
LibintLibs(libint_maj_ver) ==
    IF libint_maj_ver = <<"1">> THEN Libint1Libs
    ELSE IF libint_maj_ver = <<"2">> THEN Libint2Libs
    ELSE <<>>

\* lines 269-314: the LibInt part of configureCommon, on the common options o
ConfigureLibint(m, o) ==
    LET softrootlibint == getenv("SOFTROOTLIBINT")
        o1 == [o EXCEPT !["DFLAGS"] = @ \o <<" ", "-D__LIBINT">>]
        w == IF m.self.compilerISO_C_BINDING THEN Res("", m, "wrapper" :> <<>>)
             ELSE LibintWrapper(m, softrootlibint)
        o2 == IF m.self.compilerISO_C_BINDING THEN o1
              ELSE [o1 EXCEPT !["DFLAGS"] = @ \o <<" ", "-D__HAS_NO_ISO_C_BINDING">>]
        version == getenv("SOFTVERSIONLIBINT")
        libint_maj_ver == SplitDotFirst(version)
        libint_libs == LibintLibs(libint_maj_ver)
        m2 == Logged(w.m, "info", "Using LibInt version")
        o3 == Put(o2, "LIBINTLIB", softrootlibint \o <<"/lib">>)
    IN  IF ~Truthy(softrootlibint) THEN LogError(m, "LibInt module not loaded.")
        ELSE IF w.err # "" THEN w
        ELSE IF version = None THEN Crash(w.m, "AttributeError")
        ELSE IF libint_libs = <<>> THEN LogError(w.m, "Don't know how to handle libint version")
        ELSE IF o3["LIBS"] = None THEN Crash(m2, "TypeError")
        ELSE Res("", m2, [o3 EXCEPT !["LIBS"] = @ \o <<" ", "-lstdc++", " ">> \o libint_libs
                                                     \o SP \o w.options["wrapper"]])

\* lines 212-316
configureCommon(m) ==
    LET m1 == IF m.cfg.type = <<"psmp">> THEN [m EXCEPT !.self.openmp = tk.openmp_flag] ELSE m
        o == CommonOptions(m1)
    IN  IF ~HasMpi2 THEN LogError(m1, "CP2K needs MPI-2, no known MPI-2 supporting library loaded?")
        ELSE IF m1.cfg.libint THEN ConfigureLibint(m1, o)
        ELSE Res("", m1, o)

----------------------------------------------------------------------------
(* distutils.version.LooseVersion *)

\* int(component) for the numeric components the model uses
NumOf(a) ==
    CASE a = "0" -> 0 [] a = "1" -> 1 [] a = "5" -> 5 [] a = "8" -> 8 [] a = "10" -> 10
      [] a = "2010" -> 2010 [] a = "2011" -> 2011 [] a = "2012" -> 2012

\* LooseVersion.parse: the components between the dots, as integers
RECURSIVE VersionList(_)
VersionList(s) ==
    IF s = <<>> THEN <<>>
    ELSE IF Head(s) = "." THEN VersionList(Tail(s))
    ELSE <<NumOf(Head(s))>> \o VersionList(Tail(s))

\* Python's list comparison a >= b
RECURSIVE ListGe(_, _)
ListGe(a, b) ==
    IF b = <<>> THEN TRUE
    ELSE IF a = <<>> THEN FALSE
    ELSE IF Head(a) # Head(b) THEN Head(a) > Head(b)
    ELSE ListGe(Tail(a), Tail(b))

\* LooseVersion(v) >= LooseVersion(w)
VersionGe(v, w) == ListGe(VersionList(v), VersionList(w))

----------------------------------------------------------------------------
(* The compiler families *)

\* lines 318-357
configureIntelBased(m) ==
    LET r == configureCommon(m)
        extrainc == IF Truthy(r.m.self.modincpath) THEN <<"-I">> \o r.m.self.modincpath ELSE <<>>
        o1 == Update(r.options,
                ("FREE" :> <<"-fpp -free">>) @@
                ("SAFE" :> <<"-assume protect_parens -no-unroll-aggressive">>) @@
                ("INCFLAGS" :> <<"$(DFLAGS) -I$(INTEL_INC) -I$(INTEL_INCF) ">> \o extrainc) @@
                ("LDFLAGS" :> <<"$(INCFLAGS) -i-static">>) @@
                ("OBJECTS_ARCHITECTURE" :> <<"machine_intel.o">>))
        o2 == [o1 EXCEPT !["DFLAGS"] = @ \o <<" ", "-D__INTEL">>,
                         !["FCFLAGSOPT"] = @ \o <<" $(INCFLAGS) -xHOST -heap-arrays 64 -funroll-loops">>,
                         !["FCFLAGSOPT2"] = @ \o <<" $(INCFLAGS) -xHOST -heap-arrays 64">>]
        m1 == [r.m EXCEPT !.self.make_instructions = @ \o QsVxcAtomRule]
        ifort == getenv("SOFTVERSIONIFORT")
    IN  IF r.err # "" THEN r
        ELSE IF ifort = None THEN Crash(m1, "AttributeError")
        ELSE IF VersionGe(ifort, <<"2011", ".", "8">>)
             THEN Res("", [m1 EXCEPT !.self.make_instructions = @ \o EtCouplingRule \o QsVxcAtomRule], o2)
        ELSE IF VersionGe(ifort, <<"2011">>)
             THEN LogError(m1, "CP2K won't build correctly with the Intel v12 compilers before version 2011.8.")
        ELSE Res("", m1, o2)

\* lines 359-378
configureGCCBased(m) ==
    LET r == configureCommon(m)
        o1 == Update(r.options,
                ("FREE" :> <<"-ffree-form -ffree-line-length-none">>) @@
                ("LDFLAGS" :> <<"$(FCFLAGS)">>) @@
                ("OBJECTS_ARCHITECTURE" :> <<"machine_gfortran.o">>))
        o2 == [o1 EXCEPT !["DFLAGS"] = @ \o <<" ", "-D__GFORTRAN">>,
                         !["FCFLAGSOPT"] = @ \o <<" $(DFLAGS) $(CFLAGS) -march=native -ffast-math -funroll-loops -ftree-vectorize -fmax-stack-var-size=32768">>,
                         !["FCFLAGSOPT2"] = @ \o <<" $(DFLAGS) $(CFLAGS) -march=native">>]
    IN  IF r.err # "" THEN r ELSE Res("", r.m, o2)

----------------------------------------------------------------------------
(* The math libraries *)

\* lines 380-395
configureACML(m, o) ==
    LET openmp_suffix == IF Truthy(m.self.openmp) THEN <<"_mp">> ELSE <<>>
        o1 == Put(o, "ACML_INC", Str(getenv("SOFTROOTACML")) \o <<"/gfortran64">> \o openmp_suffix \o <<"/include">>)
        o2 == [o1 EXCEPT !["CFLAGS"] = @ \o <<" ", "-I$(ACML_INC)", " ", "-I$(FFTW_INC)">>,
                         !["DFLAGS"] = @ \o <<" ", "-D__FFTACML">>]
        blas == Replace(getenv("LIBBLAS"), <<"gfortran64">>, <<"gfortran64">> \o openmp_suffix)
    IN  IF getenv("LIBBLAS") = None THEN Crash(m, "AttributeError")
        ELSE IF o2["LIBS"] = None THEN Crash(m, "TypeError")
        ELSE Res("", m, [o2 EXCEPT !["LIBS"] = @ \o SP \o m.self.libsmm \o SP
                                                  \o Str(getenv("LIBSCALAPACK")) \o SP \o blas])

\* lines 397-402
configureATLAS(m, o) ==
    IF o["LIBS"] = None THEN Crash(m, "TypeError")
    ELSE Res("", m, [o EXCEPT !["LIBS"] = @ \o SP \o m.self.libsmm \o SP \o Str(getenv("LIBBLAS"))])

\* lines 404-421
configureMKL(m, o) ==
    LET o1 == Update(o, ("INTEL_INC" :> <<"$(MKLROOT)/include">>) @@
                              ("INTEL_INCF" :> <<"$(INTEL_INC)/fftw">>))
        extra == IF Truthy(m.self.modincpath) THEN <<"-I">> \o m.self.modincpath ELSE <<>>
        o2 == [o1 EXCEPT !["DFLAGS"] = @ \o <<" ", "-D__FFTW3", " ", "-D__FFTMKL">>,
                         !["CFLAGS"] = @ \o <<" ", "-I$(INTEL_INC)", " ", "-I$(INTEL_INCF)", " ">> \o extra
                                         \o <<" ", "$(FPIC)", " ", "$(DEBUG)">>]
    IN  IF o2["LIBS"] = None THEN Crash(m, "TypeError")
        ELSE Res("", m, [o2 EXCEPT !["LIBS"] = @ \o SP \o m.self.libsmm \o SP \o Str(getenv("LIBSCALAPACK"))])

\* lines 423-438
configureFFTW(m, o) ==
    LET softroot == getenv("SOFTROOTFFTW")
        o1 == Update(o, ("FFTW_INC" :> softroot \o <<"/include">>) @@
                              ("FFTW3INC" :> softroot \o <<"/include">>) @@
                              ("FFTW3LIB" :> softroot \o <<"/lib">>))
        o2 == [o1 EXCEPT !["DFLAGS"] = @ \o <<" ", "-D__FFTW3">>]
    IN  IF o2["LIBS"] = None THEN Crash(m, "TypeError")
        ELSE Res("", m, [o2 EXCEPT !["LIBS"] = @ \o <<" ", "-lfftw3">>])

\* lines 440-445
configureLAPACK(m, o) ==
    IF o["LIBS"] = None THEN Crash(m, "TypeError")
    ELSE Res("", m, [o EXCEPT !["LIBS"] = @ \o SP \o Str(getenv("LIBLAPACK_MT"))])

\* lines 447-452
configureScaLAPACK(m, o) ==
    IF o["LIBS"] = None THEN Crash(m, "TypeError")
    ELSE Res("", m, [o EXCEPT !["LIBS"] = @ \o SP \o Str(getenv("LIBSCALAPACK"))])

----------------------------------------------------------------------------
(* prepmodinc *)

\* the truth value of the modinc setting: a non-empty list, True, or any
\* other non-empty value
ModincSet(modinc) ==
    CASE modinc.kind = "list" -> modinc.files # <<>>
      [] modinc.kind = "bool" -> modinc.value
      [] OTHER -> TRUE

\* lines 198-206: one compiler run per module file
RECURSIVE ModincLoop(_, _, _, _)
ModincLoop(m, modfiles, f77, modincpath) ==
    IF modfiles = <<>> THEN Res("", m, NoOptions)
    ELSE LET f == Head(modfiles)
             cmd == IF EndsWith(f77, <<"ifort">>)
                    THEN f77 \o <<" ", "-module", " ">> \o modincpath \o <<" ", "-c", " ">> \o f
                    ELSE f77 \o <<" ", "-J">> \o modincpath \o <<" ", "-c", " ">> \o f
             r == run_cmd(m, cmd, world.ec["modinc"])
         IN  IF ~EndsWith(f77, <<"ifort">>) /\ f77 \notin {<<"gfortran">>, <<"mpif77">>}
             THEN LogError(m, "prepmodinc: Unknown value specified for F77")
             ELSE IF r.err # "" THEN r
             ELSE ModincLoop(r.m, Tail(modfiles), f77, modincpath)

\* lines 161-210; the result's options hold the one key "modincpath"
prepmodinc(m) ==
    LET softrootimkl == getenv("SOFTROOTIMKL")
        modincpath == m.self.builddir \o <<"/", "modinc">>
        m1 == [m EXCEPT !.fs.dirs = @ \cup {"modinc"}]
        modincdir == softrootimkl \o <<"/">> \o m.cfg.modincprefix \o <<"/", "include">>
        modinc == m.cfg.modinc
        modfiles == IF modinc.kind = "list"
                    THEN [i \in 1..Len(modinc.files) |-> modincdir \o <<"/", modinc.files[i]>>]
                    ELSE [i \in 1..Len(world.modinc_glob) |-> modincdir \o <<"/", world.modinc_glob[i]>>]
        f77 == getenv("F77")
        r == ModincLoop(m1, modfiles, f77, modincpath)
    IN  IF ~Truthy(softrootimkl) THEN LogError(m, "Don't know how to prepare modinc, IMKL not found")
        ELSE IF "modinc" \in m.fs.dirs
             THEN LogError(m, "Failed to create directory for module include files")
        ELSE IF modinc.kind \notin {"list", "bool"}
             THEN LogError(m1, "prepmodinc: Please specify either a boolean value or a list of files in modinc")
        ELSE IF ~Truthy(f77) THEN LogError(m1, "F77 environment variable not set, can't continue.")
        ELSE IF r.err # "" THEN r
        ELSE Res("", r.m, "modincpath" :> modincpath)

----------------------------------------------------------------------------
(* configure *)

\* every key the options can hold, in one order and in the opposite order; a
\* dictionary's iteration order is one the program does not choose
AllKeys ==
    <<"CC", "CPP", "FC", "LD", "AR", "CPPFLAGS", "FPIC", "DEBUG", "FCFLAGS", "FCFLAGS2",
      "CFLAGS", "DFLAGS", "LIBS", "FCFLAGSNOOPT", "FCFLAGSOPT", "FCFLAGSOPT2", "LIBINTLIB",
      "FREE", "SAFE", "INCFLAGS", "LDFLAGS", "OBJECTS_ARCHITECTURE", "ACML_INC",
      "INTEL_INC", "INTEL_INCF", "FFTW_INC", "FFTW3INC", "FFTW3LIB">>

Reverse(s) == [i \in 1..Len(s) |-> s[Len(s) + 1 - i]]

\* options.iteritems(): the keys of o in the order this run's dictionary has
RECURSIVE KeysIn(_, _)
KeysIn(order, o) ==
    IF order = <<>> THEN <<>>
    ELSE IF Head(order) \in DOMAIN o THEN <<Head(order)>> \o KeysIn(Tail(order), o)
    ELSE KeysIn(Tail(order), o)

iteritems(o) == KeysIn(IF world.dictorder = "forward" THEN AllKeys ELSE Reverse(AllKeys), o)

MakefileHeader ==
    <<"# Makefile generated by CP2K._generateMakefile, items might appear in random order", "\n">>

\* a writer that leaves out the entries without a value
RECURSIVE MakefileLinesNoEmpty(_, _)
MakefileLinesNoEmpty(keys, o) ==
    IF keys = <<>> THEN <<>>
    ELSE IF o[Head(keys)] = <<>> THEN MakefileLinesNoEmpty(Tail(keys), o)
    ELSE <<Head(keys), " = ">> \o Str(o[Head(keys)]) \o NL \o MakefileLinesNoEmpty(Tail(keys), o)

\* lines 74-75
RECURSIVE MakefileLines(_, _)
MakefileLines(keys, o) ==
    IF keys = <<>> THEN <<>>
    ELSE <<Head(keys), " = ">> \o Str(o[Head(keys)]) \o NL \o MakefileLines(Tail(keys), o)

\* lines 71-77
_generateMakefile(m, o) == MakefileHeader \o MakefileLines(iteritems(o), o) \o m.self.make_instructions

\* lines 88-93
SetDebugPic(m) ==
    LET m1 == IF tk.opts.debug THEN Logged([m EXCEPT !.self.debug = <<"-g">>], "info", "Debug build") ELSE m
    IN  IF tk.opts.pic THEN Logged([m1 EXCEPT !.self.fpic = <<"-fPIC">>], "info", "Using fPIC") ELSE m1

\* lines 101-107: libsmm support
SetLibsmm(m) ==
    LET stems == world.libsmms
        libsmms == [i \in 1..Len(stems) |-> getenv("SOFTROOTLIBSMM") \o <<"/lib", "/", "lib", stems[i], ".a">>]
        defines == [i \in 1..Len(stems) |-> <<"-D__HAS_", stems[i]>>]
        moredflags == SP \o Join(defines)
    IN  IF has_key("SOFTROOTLIBSMM")
        THEN [updatecfg(m, "extradflags", moredflags) EXCEPT !.self.libsmm = Join(libsmms)]
        ELSE m

\* a stripping that forgets the end markers
StripGroupsStartOnly(libs) == Replace(libs, StartGroup, <<>>)

\* line 145
StripGroups(libs) == Replace(Replace(libs, StartGroup, <<>>), EndGroup, <<>>)

\* line 147
WrapGroup(libs) == StartGroup \o SP \o libs \o SP \o EndGroup

\* a choice that looks for ACML before MKL
MathLibraryAcmlFirst(m, o) ==
    IF Truthy(getenv("SOFTROOTACML")) THEN configureACML(m, o)
    ELSE IF Truthy(getenv("SOFTROOTIMKL")) THEN configureMKL(m, o)
    ELSE IF Truthy(getenv("SOFTROOTATLAS")) THEN configureATLAS(m, o)
    ELSE Res("", m, o)

\* lines 128-133: the first math library that is loaded, none of the others
MathLibrary(m, o) ==
    IF Truthy(getenv("SOFTROOTIMKL")) THEN configureMKL(m, o)
    ELSE IF Truthy(getenv("SOFTROOTACML")) THEN configureACML(m, o)
    ELSE IF Truthy(getenv("SOFTROOTATLAS")) THEN configureATLAS(m, o)
    ELSE Res("", m, o)

\* lines 144-147
Regroup(m, o) ==
    IF o["LIBS"] = None THEN Crash(m, "AttributeError")
    ELSE Res("", m, [o EXCEPT !["LIBS"] = WrapGroup(StripGroups(@))])

\* lines 149-159
archfile(m) == m.cfg.startfrom \o <<"/", "arch", "/">> \o m.self.typearch \o <<".">> \o m.cfg.type

WriteArchfile(m, o) ==
    LET txt == _generateMakefile(m, o)
    IN  IF "archfile" \in world.fail THEN LogError(m, "Writing makefile failed")
        ELSE Res("", Logged([m EXCEPT !.fs.files = Put(@, archfile(m), txt)], "info", "Content of makefile"), o)

\* lines 119-126
CompilerFamily(m) ==
    IF tk.comp_family = "Intel" THEN configureIntelBased(m)
    ELSE IF tk.comp_family = "GCC" THEN configureGCCBased(m)
    ELSE LogError(m, "Don't know how to tweak configuration for compiler used.")

\* lines 128-147: the layers on the compiler family's options r, each only
\* if the ones before it returned, and the regrouped LIBS
AddMathLibrary(r) == IF r.err # "" THEN r ELSE MathLibrary(r.m, r.options)

AddFFTW(r) ==
    IF r.err # "" \/ ~Truthy(getenv("SOFTROOTFFTW")) THEN r ELSE configureFFTW(r.m, r.options)

AddLAPACK(r) ==
    IF r.err # "" \/ ~Truthy(getenv("SOFTROOTLAPACK")) THEN r ELSE configureLAPACK(r.m, r.options)

AddScaLAPACK(r) ==
    IF r.err # "" \/ ~Truthy(getenv("SOFTROOTSCALAPACK")) THEN r ELSE configureScaLAPACK(r.m, r.options)

AddRegroup(r) == IF r.err # "" THEN r ELSE Regroup(r.m, r.options)

\* a configure that leaves the start of an arch file behind when a layer
\* raised
AddArchfileAnyway(r) ==
    IF r.err # "" THEN [r EXCEPT !.m.fs.files = Put(@, archfile(r.m), MakefileHeader)]
    ELSE WriteArchfile(r.m, r.options)

AddArchfile(r) == IF r.err # "" THEN r ELSE WriteArchfile(r.m, r.options)

\* lines 109-111
Modinc(m) ==
    IF ModincSet(m.cfg.modinc) THEN prepmodinc(m)
    ELSE Res("", m, "modincpath" :> m.self.modincpath)

\* lines 111-117
SetTypearch(m, modincpath) ==
    [m EXCEPT !.self.modincpath = modincpath,
              !.self.typearch = <<"Linux-x86-64-", tk.name>>,
              !.self.make_instructions = GraphconRule]

\* lines 113-142, after prepmodinc returned p: the options with every layer
\* on them, LIBS not yet regrouped
Layers(p) ==
    IF p.err # "" THEN p
    ELSE AddScaLAPACK(AddLAPACK(AddFFTW(AddMathLibrary(
             CompilerFamily(SetTypearch(p.m, p.options["modincpath"]))))))

\* lines 113-159, after prepmodinc returned p
ConfigureToolkit(p) == AddArchfile(AddRegroup(Layers(p)))

\* lines 79-159
configure(m) == ConfigureToolkit(Modinc(SetLibsmm(SetDebugPic(m))))

----------------------------------------------------------------------------
(* make *)

\* lines 467-476: fileinput over Makefile, in place, with a backup
PatchMakefile(m) ==
    IF ~Truthy(m.cfg.parallel) THEN Res("", m, NoOptions)
    ELSE IF "Makefile" \in world.fail THEN LogError(m, "Can't modify/write Makefile")
    ELSE Res("", [m EXCEPT !.fs.patched = @ \cup {<<"Makefile", ".orig.patchictce">>}], NoOptions)

\* lines 478-484: "make %s" % makeopts after the two updates
MakeCmd(m) ==
    LET m1 == updatecfg(m, "makeopts", <<"MAKE=\"make -j ">> \o Str(m.cfg.parallel) \o <<"\" all">>)
        m2 == updatecfg(m1, "makeopts", <<"ARCH=">> \o m1.self.typearch \o <<" VERSION=">> \o m1.cfg.type)
    IN  Res("", m2, "cmd" :> (<<"make", " ">> \o m2.cfg.makeopts))

\* a build that goes on whatever make clean returned
RunMakeWhateverClean(m, cmd) ==
    LET c == run_cmd(m, cmd \o <<" ", "clean">>, world.ec["clean"])
    IN  run_cmd(c.m, cmd, world.ec["make"])

\* lines 486-490: clean first, then build
RunMake(m, cmd) ==
    LET c == run_cmd(m, cmd \o <<" ", "clean">>, world.ec["clean"])
    IN  IF c.err # "" THEN c ELSE run_cmd(c.m, cmd, world.ec["make"])

\* lines 454-490
make(m) ==
    LET makefiles == m.cfg.startfrom \o <<"/", "makefiles">>
        p == PatchMakefile([m EXCEPT !.cwd = makefiles])
        c == MakeCmd(p.m)
    IN  IF "makefiles" \notin m.fs.dirs THEN Crash(m, "TypeError")
        ELSE IF p.err # "" THEN p
        ELSE RunMake(c.m, c.options["cmd"])

----------------------------------------------------------------------------
(* test *)

\* the largest count a harness summary of the model reports
MaxCount == 150

IsSpace(a) == a \in {" ", "\n", "\t"}

\* the text of a count, and back: str(n) and int(s)
Digits == {ToString(n) : n \in 0..MaxCount}
IntOf(a) == CHOOSE n \in 0..MaxCount : ToString(n) = a

\* the number of white-space atoms of t from index i on
RECURSIVE SpaceRun(_, _)
SpaceRun(t, i) == IF i <= Len(t) /\ IsSpace(t[i]) THEN 1 + SpaceRun(t, i + 1) ELSE 0

\* re_pattern % label, piece by piece; "\\s+" is one or more white-space
\* atoms, "[0-9]+" the count
RePattern(label) ==
    <<"number", "\\s+", "of", "\\s+">> \o (IF label = "" THEN <<>> ELSE <<label>>)
        \o <<"\\s+", "tests", "\\s+", "[0-9]+">>

\* the index after a match of pat at index i of t, or 0 when there is none;
\* "\\s+" is greedy and gives back what the rest of the pattern needs
RECURSIVE MatchEnd(_, _, _)
MatchEnd(t, i, pat) ==
    IF pat = <<>> THEN i
    ELSE IF Head(pat) = "\\s+"
         THEN LET ks == {k \in 1..SpaceRun(t, i) : MatchEnd(t, i + k, Tail(pat)) # 0}
              IN  IF ks = {} THEN 0
                  ELSE MatchEnd(t, i + (CHOOSE k \in ks : \A j \in ks : j <= k), Tail(pat))
    ELSE IF i > Len(t) THEN 0
    ELSE IF Head(pat) = "[0-9]+"
         THEN IF t[i] \in Digits THEN MatchEnd(t, i + 1, Tail(pat)) ELSE 0
    ELSE IF t[i] = Head(pat) THEN MatchEnd(t, i + 1, Tail(pat)) ELSE 0

\* a search that takes a missing line for a count of zero
SearchCountOrZero(t, label) ==
    LET starts == {i \in 1..Len(t) : (i = 1 \/ t[i - 1] = "\n") /\ MatchEnd(t, i, RePattern(label)) # 0}
        first == CHOOSE i \in starts : \A j \in starts : i <= j
    IN  IF starts = {} THEN 0
        ELSE IntOf(t[MatchEnd(t, first, RePattern(label)) - 1])

\* regexp.search(regtest_output) with re.M: the count of the first match
\* that starts a line, or -1 when nothing matches (res is None)
SearchCount(t, label) ==
    LET starts == {i \in 1..Len(t) : (i = 1 \/ t[i - 1] = "\n") /\ MatchEnd(t, i, RePattern(label)) # 0}
        first == CHOOSE i \in starts : \A j \in starts : i <= j
    IN  IF starts = {} THEN -1
        ELSE IntOf(t[MatchEnd(t, first, RePattern(label)) - 1])

\* "Finding number of %s tests in regression test summary failed"
ParseMsg(test_result) ==
    CASE test_result = "FAILED" -> "Finding number of failed tests in regression test summary failed"
      [] test_result = "WRONG" -> "Finding number of wrong tests in regression test summary failed"
      [] test_result = "NEW" -> "Finding number of new tests in regression test summary failed"
      [] test_result = "CORRECT" -> "Finding number of correct tests in regression test summary failed"

TotalParseMsg == "Finding total number of tests in regression$G:q test summary failed"

\* logmsg, without the counts in it
ReportMsg(test_result) ==
    CASE test_result = "FAILED" -> "Regression test reported failed tests"
      [] test_result = "WRONG" -> "Regression test reported wrong tests"
      [] test_result = "NEW" -> "Regression test reported new tests"
      [] test_result = "CORRECT" -> "Regression test reported correct tests"

\* a condition that lets one failed test pass
IsProblemFailedAboveOne(test_result, cnt, tot_cnt) ==
    \/ (test_result = "FAILED" /\ cnt > 1)
    \/ (test_result = "WRONG" /\ (cnt \div tot_cnt) * 10 > 1)

\* line 593: failed tests, or excessively many wrong tests; cnt / tot_cnt
\* divides two integers
IsProblem(test_result, cnt, tot_cnt) ==
    \/ (test_result = "FAILED" /\ cnt > 0)
    \/ (test_result = "WRONG" /\ (cnt \div tot_cnt) * 10 > 1)

\* a report that takes new tests for a problem as well
test_reportNewToo(m, test_result, tot_cnt) ==
    LET cnt == SearchCount(world.regtest_output, test_result)
        logmsg == ReportMsg(test_result)
    IN  IF cnt = -1 THEN LogError(m, ParseMsg(test_result))
        ELSE IF test_result = "WRONG" /\ tot_cnt = 0 THEN Crash(m, "ZeroDivisionError")
        ELSE IF IsProblem(test_result, cnt, tot_cnt) \/ (test_result = "NEW" /\ cnt > 0)
             THEN IF m.cfg.ignore_regtest_fails
                  THEN Res("", Logged(Logged(m, "warning", logmsg), "info",
                                      "Ignoring failures in regression test, as requested."), NoOptions)
                  ELSE LogError(m, logmsg)
        ELSE IF test_result = "CORRECT" \/ cnt = 0 THEN Res("", Logged(m, "info", logmsg), NoOptions)
        ELSE Res("", Logged(m, "warning", logmsg), NoOptions)

\* lines 574-604
test_report(m, test_result, tot_cnt) ==
    LET cnt == SearchCount(world.regtest_output, test_result)
        logmsg == ReportMsg(test_result)
    IN  IF cnt = -1 THEN LogError(m, ParseMsg(test_result))
        ELSE IF test_result = "WRONG" /\ tot_cnt = 0 THEN Crash(m, "ZeroDivisionError")
        ELSE IF IsProblem(test_result, cnt, tot_cnt)
             THEN IF m.cfg.ignore_regtest_fails
                  THEN Res("", Logged(Logged(m, "warning", logmsg), "info",
                                      "Ignoring failures in regression test, as requested."), NoOptions)
                  ELSE LogError(m, logmsg)
        ELSE IF test_result = "CORRECT" \/ cnt = 0 THEN Res("", Logged(m, "info", logmsg), NoOptions)
        ELSE Res("", Logged(m, "warning", logmsg), NoOptions)

\* lines 606-615: the four reports in order; postmsg gets what each returns
RECURSIVE Reports(_, _, _)
Reports(m, results, tot_cnt) ==
    IF results = <<>> THEN Res("", m, NoOptions)
    ELSE LET r == test_report(m, Head(results), tot_cnt)
             m1 == IF Head(results) = "CORRECT" THEN r.m
                   ELSE [r.m EXCEPT !.self.postmsg = @ \o <<>>]
         IN  IF r.err # "" THEN r ELSE Reports(m1, Tail(results), tot_cnt)

\* lines 560-615
ParseRegtest(m) ==
    LET tot_cnt == SearchCount(world.regtest_output, "")
    IN  IF tot_cnt = -1
        THEN LogError(m, TotalParseMsg)
        ELSE Reports(m, <<"FAILED", "WRONG", "NEW", "CORRECT">>, tot_cnt)

\* the first entry of a directory listing that starts with prefix, or None
RECURSIVE FirstWith(_, _)
FirstWith(entries, prefix) ==
    IF entries = <<>> THEN None
    ELSE IF StartsWith(Head(entries), prefix) THEN Head(entries)
    ELSE FirstWith(Tail(entries), prefix)

\* lines 527-539
RegtestCfg(m) ==
    <<"FORT_C_NAME=\"">> \o Str(getenv("F90")) \o <<"\"\ndir_base=">> \o m.self.builddir
        \o <<"\ncp2k_version=">> \o m.cfg.type \o <<"\ndir_triplet=">> \o m.self.typearch
        \o <<"\nleakcheck=\"YES\"\nmaxtasks=">> \o m.cfg.maxtasks \o <<"\n            ">>

\* lines 495-558: up to the end of the harness run
RunRegtest(m) ==
    LET m1 == [m EXCEPT !.cwd = m.self.builddir]
        regtest_refdir == FirstWith(world.builddir_entries, <<"LAST-">>)
        regtest_script == m.self.builddir \o <<"/cp2k/tools/do_regtest">>
        m2 == IF regtest_refdir # None
              THEN [Logged(m1, "info", "Using reference output available")
                       EXCEPT !.fs.patched = @ \cup {<<"do_regtest", ".orig.refout">>}]
              ELSE Logged(m1, "info", "No reference output found for regression test, just continuing without it...")
        m3 == [m2 EXCEPT !.fs.files = Put(@, <<"cp2k_regtest.cfg">>, RegtestCfg(m2))]
        cmd == regtest_script \o <<" -nocvs -quick -nocompile -config ", "cp2k_regtest.cfg">>
        r == run_cmd(m3, cmd, world.ec["regtest"])
    IN  IF "builddir" \notin m.fs.dirs THEN Crash(m, "TypeError")
        ELSE IF regtest_refdir # None /\ "do_regtest" \in world.fail
             THEN LogError(Logged(m1, "info", "Using reference output available"), "Failed to modify do_regtest")
        ELSE IF "cp2k_regtest.cfg" \in world.fail THEN LogError(m2, "Failed to create config file")
        ELSE IF r.err # "" THEN r
        ELSE Res("", Logged(r.m, "info", "Regression test output"), NoOptions)

\* a test step that runs the harness whatever runtest says
testAlways(m) ==
    LET r == RunRegtest(m)
    IN  IF r.err # "" THEN r ELSE ParseRegtest(r.m)

\* lines 492-615
test(m) ==
    IF ~m.cfg.runtest THEN Res("", m, NoOptions)
    ELSE LET r == RunRegtest(m)
         IN  IF r.err # "" THEN r ELSE ParseRegtest(r.m)

----------------------------------------------------------------------------
(* make_install and sanitycheck *)

\* shutil.copy2 of every file of a listing into targetdir
RECURSIVE CopyAll(_, _, _)
CopyAll(m, files, targetdir) ==
    IF files = <<>> THEN m
    ELSE CopyAll([m EXCEPT !.fs.copied = @ \cup {<<Head(files), targetdir>>}], Tail(files), targetdir)

\* lines 623-636
CopyExecutables(m) ==
    LET exedir == m.cfg.startfrom \o <<"/", "exe/">> \o Str(m.self.typearch)
        m1 == [m EXCEPT !.fs.dirs = @ \cup {"installdir/bin"}]
        m2 == [m1 EXCEPT !.cwd = exedir]
    IN  IF "exedir" \notin m.fs.dirs \/ "copy_exe" \in world.fail
        THEN LogError(m1, "Copying executables to bin dir failed")
        ELSE Res("", CopyAll(m2, world.exefiles, "installdir/bin"), NoOptions)

\* a copy that is tried on an existing destination as well, where copytree
\* raises
CopyTestsOverExisting(m) ==
    IF "installdir/tests" \in m.fs.dirs \/ "copy_tests" \in world.fail
    THEN LogError(m, "Copying tests failed")
    ELSE Res("", [m EXCEPT !.fs.dirs = @ \cup {"installdir/tests"},
                           !.fs.copied = @ \cup {<<<<"tests">>, "installdir/tests">>}], NoOptions)

\* lines 638-647
CopyTests(m) ==
    IF "installdir/tests" \in m.fs.dirs
    THEN Res("", Logged(m, "info", "Won't copy tests. Destination directory already exists"), NoOptions)
    ELSE IF "copy_tests" \in world.fail THEN LogError(m, "Copying tests failed")
    ELSE Res("", [m EXCEPT !.fs.dirs = @ \cup {"installdir/tests"},
                           !.fs.copied = @ \cup {<<<<"tests">>, "installdir/tests">>}], NoOptions)

\* lines 649-660
CopyRegtestResults(m) ==
    LET d == FirstWith(world.builddir_entries,
                       <<"TEST-">> \o Str(m.self.typearch) \o <<"-">> \o m.cfg.type)
    IN  IF ~m.cfg.runtest THEN Res("", m, NoOptions)
        ELSE IF "builddir" \notin m.fs.dirs THEN LogError(m, "Failed to copy regression test results dir")
        ELSE IF d = None THEN Res("", m, NoOptions)
        ELSE IF "copy_regtest" \in world.fail THEN LogError(m, "Failed to copy regression test results dir")
        ELSE Res("", Logged([m EXCEPT !.fs.copied = @ \cup {<<d, "installdir">>}],
                            "info", "Regression test results dir copied"), NoOptions)

\* lines 617-660
make_install(m) ==
    LET e == CopyExecutables(m)
        t == CopyTests(e.m)
    IN  IF e.err # "" THEN e
        ELSE IF t.err # "" THEN t
        ELSE CopyRegtestResults(t.m)

\* lines 662-673
sanitycheck(m) ==
    LET cp2k_type == m.cfg.type
        paths == [files |-> <<<<"bin/cp2k.">> \o cp2k_type, <<"bin/cp2k_shell.">> \o cp2k_type,
                              <<"bin/fes.">> \o cp2k_type>>,
                  dirs |-> <<<<"tests">>>>]
    IN  IF m.cfg.sanityCheckPaths.files = <<>> /\ m.cfg.sanityCheckPaths.dirs = <<>>
        THEN Res("", Logged([m EXCEPT !.cfg.sanityCheckPaths = paths], "info", "Customized sanity check paths"),
                 NoOptions)
        ELSE Res("", m, NoOptions)

----------------------------------------------------------------------------
(* The build as the framework runs it: configure, make, test, make_install, *)
(* sanitycheck, each step once, stopping at the first step that raises.    *)

\* the easyblock object and what it acts on, as the methods see them
Machine == [self |-> self, cfg |-> cfg, fs |-> fs, cmds |-> cmds, cwd |-> cwd, log |-> log]

\* the step at pc ran with result r; the next step is next
Step(r, next) ==
    /\ step' = pc
    /\ self' = r.m.self
    /\ cfg' = r.m.cfg
    /\ fs' = r.m.fs
    /\ cmds' = r.m.cmds
    /\ cwd' = r.m.cwd
    /\ log' = r.m.log
    /\ err' = r.err
    /\ pc' = IF r.err = "" THEN next ELSE "failed"
    /\ UNCHANGED <<env, tk, world>>

\* configure ran with result r: the options it built are kept
ConfigureStep(r) ==
    /\ Step(r, "make")
    /\ options' = IF r.err = "" THEN r.options ELSE options

Configure ==
    /\ pc = "configure"
    /\ ConfigureStep(configure(Machine))

Make ==
    /\ pc = "make"
    /\ Step(make(Machine), "test")
    /\ UNCHANGED options

Test ==
    /\ pc = "test"
    /\ Step(test(Machine), "make_install")
    /\ UNCHANGED options

MakeInstall ==
    /\ pc = "make_install"
    /\ Step(make_install(Machine), "sanitycheck")
    /\ UNCHANGED options

Sanitycheck ==
    /\ pc = "sanitycheck"
    /\ Step(sanitycheck(Machine), "done")
    /\ UNCHANGED options

Next == Configure \/ Make \/ Test \/ MakeInstall \/ Sanitycheck

----------------------------------------------------------------------------
(* The states a build starts from *)

\* an ictce-like toolkit with everything CP2K wants loaded
DefaultEnv ==
    ("SOFTROOTLIBSMM" :> None) @@ ("SOFTROOTIMKL" :> None) @@ ("SOFTROOTACML" :> None) @@
    ("SOFTROOTATLAS" :> None) @@ ("SOFTROOTFFTW" :> None) @@ ("SOFTROOTLAPACK" :> None) @@
    ("SOFTROOTSCALAPACK" :> None) @@ ("SOFTROOTIMPI" :> <<"/sw/impi">>) @@
    ("SOFTROOTMVAPICH2" :> None) @@ ("SOFTROOTOPENMPI" :> None) @@
    ("SOFTROOTLIBINT" :> <<"/sw/libint">>) @@ ("SOFTVERSIONLIBINT" :> <<"1", ".", "1">>) @@
    ("SOFTVERSIONIFORT" :> <<"2011", ".", "8">>) @@ ("MPICC" :> <<"mpiicc">>) @@
    ("MPIF77" :> <<"mpiifort">>) @@ ("F77" :> <<"ifort">>) @@ ("F90" :> <<"ifort">>) @@
    ("CC" :> <<"icc">>) @@ ("CFLAGS" :> <<"-O2">>) @@ ("SOFTVARCPPFLAGS" :> <<"-I/sw/include">>) @@
    ("SOFTVARLDFLAGS" :> <<"-L/sw/lib">>) @@
    ("LIBBLAS" :> <<"-L/sw/blas/", "gfortran64", "/lib", " ", "-lblas">>) @@
    ("LIBLAPACK_MT" :> StartGroup \o <<" ", "-lmkl_lapack", " ">> \o EndGroup) @@
    ("LIBSCALAPACK" :> <<"-lmkl_scalapack_lp64">>) @@ ("LIBS" :> <<"-lm">>)

DefaultTk ==
    [name |-> "ictce", comp_family |-> "Intel", opts |-> [debug |-> FALSE, pic |-> FALSE],
     openmp_flag |-> <<"-openmp">>]

\* one line of the harness summary; label "" is the line of the total
SummaryLine(label, n) ==
    IF n = -1 THEN <<>>
    ELSE <<"number", " ", "of", " ">> \o (IF label = "" THEN <<>> ELSE <<label>>)
             \o <<" ", "tests", " ", ToString(n), "\n">>

\* a harness output with the given counts; -1 leaves the line out
Summary(total, failed, wrong, new, correct) ==
    <<"GREPME", " ", "0", "\n">> \o SummaryLine("FAILED", failed) \o SummaryLine("WRONG", wrong)
        \o SummaryLine("CORRECT", correct) \o SummaryLine("NEW", new) \o SummaryLine("", total)

\* the counts of a harness run, by the name of the line that gives them
Counts(total, failed, wrong, new, correct) ==
    ("TOTAL" :> total) @@ ("FAILED" :> failed) @@ ("WRONG" :> wrong) @@ ("NEW" :> new) @@
    ("CORRECT" :> correct)

\* what the harness prints for the counts c
SummaryOf(c) == Summary(c["TOTAL"], c["FAILED"], c["WRONG"], c["NEW"], c["CORRECT"])

DefaultWorld ==
    [ec |-> [c \in {"wrapper", "modinc", "clean", "make", "regtest"} |-> 0],
     fail |-> {},
     libsmms |-> <<>>,
     modinc_glob |-> <<"mkl_blas.f90">>,
     dictorder |-> "forward",
     counts |-> Counts(100, 0, 5, 0, 95),
     regtest_output |-> SummaryOf(Counts(100, 0, 5, 0, 95)),
     builddir_entries |-> <<<<"cp2k">>>>,
     exefiles |-> <<<<"cp2k.popt">>, <<"cp2k_shell.popt">>, <<"fes.popt">>>>]

\* lines 44-54, and the framework's own settings the easyblock reads
DefaultCfg ==
    [type |-> <<"popt">>, typeopt |-> TRUE, libint |-> TRUE, modincprefix |-> <<>>,
     modinc |-> [kind |-> "list", files |-> <<>>, value |-> FALSE],
     extracflags |-> <<>>, extradflags |-> <<>>, runtest |-> TRUE,
     ignore_regtest_fails |-> FALSE, maxtasks |-> <<"3">>,
     startfrom |-> <<"<startfrom>">>, parallel |-> <<"4">>, makeopts |-> <<>>,
     sanityCheckPaths |-> [files |-> <<>>, dirs |-> <<>>]]

\* lines 41-69: the object after construction
Self0 ==
    [typearch |-> None, compilerISO_C_BINDING |-> TRUE, debug |-> <<>>, fpic |-> <<>>,
     libsmm |-> <<>>, modincpath |-> <<>>, openmp |-> <<>>, make_instructions |-> <<>>,
     postmsg |-> <<>>, builddir |-> <<"<builddir>">>, installdir |-> <<"<installdir>">>]

NoFiles == [k \in {} |-> <<>>]

DefaultFs == [files |-> NoFiles, dirs |-> {"makefiles", "builddir", "exedir"}, patched |-> {}, copied |-> {}]

\* what every build starts with
Fresh ==
    /\ pc = "configure"
    /\ step = ""
    /\ err = ""
    /\ self = Self0
    /\ cmds = <<>>
    /\ cwd = <<"<cwd>">>
    /\ log = <<>>
    /\ options = NoOptions

Path(p) == {None, <<p>>}
SetOrEmpty(p) == {None, <<>>, <<p>>}

\* every compiler family, math library and optional library, with and
\* without LibInt and OpenMP
InitLayers ==
    /\ Fresh
    /\ tk \in {[DefaultTk EXCEPT !.comp_family = f] : f \in {"Intel", "GCC", "PGI"}}
    /\ env \in {Update(DefaultEnv,
                  ("SOFTROOTIMKL" :> mkl) @@ ("SOFTROOTACML" :> acml) @@ ("SOFTROOTATLAS" :> atlas) @@
                  ("SOFTROOTFFTW" :> fftw) @@ ("SOFTROOTLAPACK" :> lapack) @@
                  ("SOFTROOTSCALAPACK" :> scalapack) @@ ("LIBS" :> libs)) :
                mkl \in SetOrEmpty("/sw/imkl"), acml \in SetOrEmpty("/sw/acml"),
                atlas \in Path("/sw/atlas"),
                fftw \in Path("/sw/fftw"), lapack \in Path("/sw/lapack"),
                scalapack \in Path("/sw/scalapack"),
                libs \in {<<"-lm">>, StartGroup \o <<" ", "-lpthread", " ">> \o EndGroup}}
    /\ cfg \in {[DefaultCfg EXCEPT !.libint = l, !.type = t] : l \in BOOLEAN, t \in {<<"popt">>, <<"psmp">>}}
    /\ world = DefaultWorld
    /\ fs = DefaultFs

\* every way the MPI and LibInt markers can be set, unset or empty
InitMpiLibint ==
    /\ Fresh
    /\ tk \in {[DefaultTk EXCEPT !.comp_family = f] : f \in {"Intel", "GCC"}}
    /\ env \in {Update(DefaultEnv,
                  ("SOFTROOTIMPI" :> impi) @@ ("SOFTROOTMVAPICH2" :> mvapich2) @@
                  ("SOFTROOTOPENMPI" :> openmpi) @@ ("SOFTROOTLIBINT" :> libint) @@
                  ("SOFTVERSIONLIBINT" :> version) @@ ("LIBS" :> libs)) :
                impi \in SetOrEmpty("/sw/impi"), mvapich2 \in SetOrEmpty("/sw/mvapich2"),
                openmpi \in SetOrEmpty("/sw/openmpi"), libint \in SetOrEmpty("/sw/libint"),
                version \in {<<"1", ".", "1">>, <<"1">>, <<"2", ".", "0">>, <<"3", ".", "0">>,
                             <<"10", ".", "0">>, <<"0", ".", "1">>},
                libs \in {<<"-lm">>}}
    /\ cfg \in {[DefaultCfg EXCEPT !.libint = l] : l \in BOOLEAN}
    /\ world = DefaultWorld
    /\ fs = DefaultFs

IfortVersions ==
    {None, <<"2010">>, <<"2011">>, <<"2011", ".", "5">>, <<"2011", ".", "8">>,
     <<"2011", ".", "10">>, <<"2012">>, <<"2012", ".", "0">>}

ModincSettings ==
    {[kind |-> "list", files |-> <<>>, value |-> FALSE],
     [kind |-> "list", files |-> <<"mkl_dfti.f90", "mkl_blas.f90">>, value |-> FALSE],
     [kind |-> "bool", files |-> <<>>, value |-> TRUE],
     [kind |-> "bool", files |-> <<>>, value |-> FALSE],
     [kind |-> "str", files |-> <<>>, value |-> FALSE]}

\* the Intel compilers of every age, with and without module include files
InitIntel ==
    /\ Fresh
    /\ tk = DefaultTk
    /\ env \in {Update(DefaultEnv,
                  ("SOFTVERSIONIFORT" :> ifort) @@ ("SOFTROOTIMKL" :> mkl) @@ ("F77" :> f77)) :
                ifort \in IfortVersions, mkl \in Path("/sw/imkl"),
                f77 \in {None, <<"ifort">>, <<"mpif77">>, <<"pgf77">>}}
    /\ cfg \in {[DefaultCfg EXCEPT !.modinc = mi] : mi \in ModincSettings}
    /\ world \in {[DefaultWorld EXCEPT !.ec["modinc"] = e] : e \in {0, 1}}
    /\ fs = DefaultFs

\* the settings that only shape the text of the arch file, and its writing
InitArchfile ==
    /\ Fresh
    /\ tk \in {[DefaultTk EXCEPT !.opts = [debug |-> d, pic |-> d], !.comp_family = f] :
                 d \in BOOLEAN, f \in {"Intel", "GCC"}}
    /\ env \in {Update(DefaultEnv, ("SOFTROOTLIBSMM" :> smm) @@ ("SOFTROOTACML" :> acml) @@
                                    ("MPICC" :> mpicc) @@ ("MPIF77" :> mpif77)) :
                smm \in Path("/sw/libsmm"), acml \in Path("/sw/acml"),
                mpicc \in Path("mpiicc"), mpif77 \in Path("mpiifort")}
    /\ cfg \in {[DefaultCfg EXCEPT !.extracflags = x, !.extradflags = x, !.typeopt = t, !.type = ty] :
                 x \in {<<>>, <<"-DEXTRA">>}, t \in BOOLEAN, ty \in {<<"popt">>, <<"psmp">>}}
    /\ world \in {[DefaultWorld EXCEPT !.libsmms = l, !.dictorder = o, !.fail = f] :
                   l \in {<<>>, <<"smm_dnn", "smm_znn">>}, o \in {"forward", "backward"},
                   f \in {{}, {"archfile"}}}
    /\ fs \in {DefaultFs, [DefaultFs EXCEPT !.dirs = @ \cup {"modinc"}]}

InitConfigure == InitLayers \/ InitMpiLibint \/ InitIntel \/ InitArchfile

\* what an earlier build left in the arch file
OldArchfile == <<"# arch file of an earlier build", "\n">>

\* a build in a source tree that may hold the arch file of an earlier build,
\* with every setting that makes configure give up
InitRebuild ==
    /\ Fresh
    /\ tk \in {[DefaultTk EXCEPT !.comp_family = f] : f \in {"Intel", "GCC", "PGI"}}
    /\ env \in {Update(DefaultEnv,
                  ("SOFTROOTIMPI" :> impi) @@ ("SOFTROOTLIBINT" :> libint) @@
                  ("SOFTVERSIONLIBINT" :> version) @@ ("SOFTVERSIONIFORT" :> ifort) @@
                  ("SOFTROOTIMKL" :> <<"/sw/imkl">>)) :
                impi \in Path("/sw/impi"), libint \in Path("/sw/libint"),
                version \in {<<"1", ".", "1">>, <<"3", ".", "0">>},
                ifort \in {<<"2011", ".", "5">>, <<"2011", ".", "8">>}}
    /\ cfg \in {[DefaultCfg EXCEPT !.modinc = mi] :
                 mi \in {[kind |-> "list", files |-> <<>>, value |-> FALSE],
                         [kind |-> "str", files |-> <<>>, value |-> FALSE]}}
    /\ world = DefaultWorld
    /\ fs \in {DefaultFs,
               [DefaultFs EXCEPT !.files =
                    <<"<startfrom>", "/", "arch", "/", "Linux-x86-64-", "ictce", ".", "popt">> :> OldArchfile]}

SpecRebuild == (InitRebuild \/ InitConfigure) /\ [][Next]_vars

SpecConfigure == InitConfigure /\ [][Next]_vars

----------------------------------------------------------------------------
(* Library lists of every shape *)

\* the longest LIBS value, in atoms
MaxLibsLen == 4

LibAtoms == {"-Wl,--start", "-Wl,--end", "-group", " ", "-lm"}

SeqsUpTo(S, n) == UNION {[1..k -> S] : k \in 0..n}

InitLibs ==
    /\ Fresh
    /\ tk \in {[DefaultTk EXCEPT !.comp_family = "GCC", !.name = "goalf"]}
    /\ env \in {Update(DefaultEnv,
                  ("LIBS" :> libs) @@ ("LIBSCALAPACK" :> scalapack) @@
                  ("SOFTROOTSCALAPACK" :> <<"/sw/scalapack">>) @@ ("SOFTROOTATLAS" :> <<"/sw/atlas">>)) :
                libs \in SeqsUpTo(LibAtoms, MaxLibsLen),
                scalapack \in {<<"-lscalapack">>,
                               StartGroup \o <<" ", "-lscalapack", " ", "-lblacs", " ">> \o EndGroup}}
    /\ cfg = [DefaultCfg EXCEPT !.libint = FALSE]
    /\ world = DefaultWorld
    /\ fs = DefaultFs

SpecLibs == (InitLibs \/ InitLayers) /\ [][Next]_vars

----------------------------------------------------------------------------
(* Harness summaries of every shape *)

\* the most failed and the most new tests a summary of the model reports
MaxFailed == 2
MaxNew == 2

WrongCounts == {-1, 0, 5, 10, 11, 50, 100, 150}
TotalCounts == {-1, 0, 10, 100}

InitTest ==
    /\ Fresh
    /\ tk = DefaultTk
    /\ env = DefaultEnv
    /\ cfg \in {[DefaultCfg EXCEPT !.ignore_regtest_fails = i] : i \in BOOLEAN}
    /\ world \in {[DefaultWorld EXCEPT !.counts = Counts(total, failed, wrong, new, correct),
                                       !.regtest_output = Summary(total, failed, wrong, new, correct)] :
                   total \in TotalCounts, failed \in -1..MaxFailed, wrong \in WrongCounts,
                   new \in -1..MaxNew, correct \in {-1, 0, 90}}
    /\ fs = DefaultFs

SpecTest == InitTest /\ [][Next]_vars

----------------------------------------------------------------------------
(* Builds, harness runs and installations that go wrong *)

InitBuild ==
    /\ Fresh
    /\ tk = DefaultTk
    /\ env = DefaultEnv
    /\ cfg \in {[DefaultCfg EXCEPT !.runtest = r, !.parallel = p, !.ignore_regtest_fails = i] :
                 r \in BOOLEAN, p \in {None, <<"4">>}, i \in BOOLEAN}
    /\ world \in {[DefaultWorld EXCEPT !.ec["clean"] = c, !.ec["make"] = k, !.ec["regtest"] = t,
                                       !.fail = f, !.builddir_entries = b,
                                       !.counts = o, !.regtest_output = SummaryOf(o)] :
                   c \in {0, 2}, k \in {0, 2}, t \in {0, 1},
                   f \in {{}, {"Makefile"}, {"do_regtest"}, {"cp2k_regtest.cfg"}, {"copy_exe"},
                          {"copy_tests"}, {"copy_regtest"}},
                   b \in {<<<<"cp2k">>>>,
                          <<<<"cp2k">>, <<"LAST-", "Linux-x86-64-", "ictce", "-", "popt">>,
                            <<"TEST-", "Linux-x86-64-", "ictce", "-", "popt", "-2012-06-01">>>>},
                   o \in {Counts(100, 0, 5, 0, 95), Counts(100, 1, 100, 2, 0)}}
    /\ fs \in {[DefaultFs EXCEPT !.dirs = d] :
                 d \in {{"makefiles", "builddir", "exedir"}, {"builddir", "exedir"},
                        {"makefiles", "exedir"}, {"makefiles", "builddir"},
                        {"makefiles", "builddir", "exedir", "installdir/tests"}}}

SpecBuild == InitBuild /\ [][Next]_vars

----------------------------------------------------------------------------

Init == InitConfigure \/ InitLibs \/ InitTest \/ InitBuild

Spec == Init /\ [][Next]_vars

----------------------------------------------------------------------------
(* Properties of configure *)

\* configure returned: the build went on to make
ConfigureDone == pc # "configure" /\ ~(pc = "failed" /\ step = "configure")

\* configure raised
ConfigureFailed == pc = "failed" /\ step = "configure"

\* LIBS as configure has it before line 145, <<>> when configure does not get there
RawLibs(r) == IF r.err = "" THEN r.options["LIBS"] ELSE <<>>

LibsBeforeRegroup == RawLibs(Layers(Modinc(SetLibsmm(SetDebugPic(Machine)))))

\* libs is one link group: it opens with the one start marker it holds and
\* closes with the one end marker it holds
OneGroup(libs) ==
    /\ StartsWith(libs, StartGroup)
    /\ EndsWith(libs, EndGroup)
    /\ Occurrences(libs, StartGroup) = {1}
    /\ Occurrences(libs, EndGroup) = {Len(libs) - 1}

\* stripping what was stripped changes nothing
StripsOnce(libs) == StripGroups(StripGroups(libs)) = StripGroups(libs)

\* every marker in s is a word of its own, blanks or the ends of s around it
WordWise(s) ==
    \A M \in {StartGroup, EndGroup} : \A i \in Occurrences(s, M) :
        /\ (i = 1 \/ s[i - 1] = " ")
        /\ (i + 2 > Len(s) \/ s[i + 2] = " ")

\* the environment values that end up in LIBS
LibsInputs == {"LIBS", "LIBBLAS", "LIBLAPACK_MT", "LIBSCALAPACK"}

WordWiseInputs == \A n \in LibsInputs : WordWise(Str(env[n]))

Loaded(name) == Truthy(env[name])

\* what each math library leaves in the options
MklApplied ==
    /\ {"INTEL_INC", "INTEL_INCF"} \subseteq DOMAIN options
    /\ Contains(options["DFLAGS"], <<"-D__FFTMKL">>)
    /\ Contains(options["CFLAGS"], <<"-I$(INTEL_INC)">>)

AcmlApplied ==
    /\ "ACML_INC" \in DOMAIN options
    /\ Contains(options["DFLAGS"], <<"-D__FFTACML">>)
    /\ Contains(options["CFLAGS"], <<"-I$(ACML_INC)">>)

NoMkl ==
    /\ {"INTEL_INC", "INTEL_INCF"} \cap DOMAIN options = {}
    /\ ~Contains(options["DFLAGS"], <<"-D__FFTMKL">>)
    /\ ~Contains(options["CFLAGS"], <<"-I$(INTEL_INC)">>)

NoAcml ==
    /\ "ACML_INC" \notin DOMAIN options
    /\ ~Contains(options["DFLAGS"], <<"-D__FFTACML">>)
    /\ ~Contains(options["CFLAGS"], <<"-I$(ACML_INC)">>)

\* how often LIBBLAS went into LIBS: once with ACML or ATLAS, never with MKL
BlasCount == Cardinality(Occurrences(options["LIBS"], <<"-lblas">>))

\* C2: of the math libraries that are loaded configure applies the first of
\* MKL, ACML, ATLAS and no other: with MKL and ACML both loaded the options
\* hold MKL's keys and flags and nothing of ACML
C2_FirstMathLibraryOnly ==
    ConfigureDone =>
        /\ Loaded("SOFTROOTIMKL") => MklApplied /\ NoAcml /\ BlasCount = 0
        /\ ~Loaded("SOFTROOTIMKL") /\ Loaded("SOFTROOTACML") => AcmlApplied /\ NoMkl /\ BlasCount = 1
        /\ ~Loaded("SOFTROOTIMKL") /\ ~Loaded("SOFTROOTACML") /\ Loaded("SOFTROOTATLAS") =>
               NoMkl /\ NoAcml /\ BlasCount = 1
        /\ ~Loaded("SOFTROOTIMKL") /\ ~Loaded("SOFTROOTACML") /\ ~Loaded("SOFTROOTATLAS") =>
               NoMkl /\ NoAcml /\ BlasCount = 0

\* configure ran with MKL, ACML and ATLAS all loaded
C2_AllThreeLoaded ==
    /\ ConfigureDone
    /\ Loaded("SOFTROOTIMKL") /\ Loaded("SOFTROOTACML") /\ Loaded("SOFTROOTATLAS")
    /\ MklApplied

NoMpiMarker == \A n \in {"SOFTROOTIMPI", "SOFTROOTMVAPICH2", "SOFTROOTOPENMPI"} : ~Loaded(n)

MpiError == "CP2K needs MPI-2, no known MPI-2 supporting library loaded?"

LibintError == "Don't know how to handle libint version"

\* configureCommon gets as far as the LibInt version
LibintReached == cfg.libint /\ Loaded("SOFTROOTLIBINT") /\ ~NoMpiMarker

LibintMajor == SplitDotFirst(env["SOFTVERSIONLIBINT"])

\* the archives of libs from index n + 1 on
ArchivesAfter(libs, n) ==
    {libs[i] : i \in {j \in (n + 1)..Len(libs) : libs[j] \in {"$(LIBINTLIB)/libderiv.a",
         "$(LIBINTLIB)/libint.a", "$(LIBINTLIB)/libr12.a", "$(LIBINTLIB)/libint2.a"}}}

ArchiveCount(libs) ==
    Cardinality({j \in 1..Len(libs) : libs[j] \in {"$(LIBINTLIB)/libderiv.a",
         "$(LIBINTLIB)/libint.a", "$(LIBINTLIB)/libr12.a", "$(LIBINTLIB)/libint2.a"}})

\* what a call of configureCommon that returned r did about LibInt
LibintBranch(r) ==
    IF LibintMajor = <<"1">>
    THEN /\ r.err = ""
         /\ ArchiveCount(r.options["LIBS"]) = 3
         /\ ArchivesAfter(r.options["LIBS"], Len(env["LIBS"])) =
                {"$(LIBINTLIB)/libderiv.a", "$(LIBINTLIB)/libint.a", "$(LIBINTLIB)/libr12.a"}
    ELSE IF LibintMajor = <<"2">>
    THEN /\ r.err = ""
         /\ ArchiveCount(r.options["LIBS"]) = 1
         /\ ArchivesAfter(r.options["LIBS"], Len(env["LIBS"])) = {"$(LIBINTLIB)/libint2.a"}
    ELSE /\ r.err = LibintError
         /\ r.options = NoOptions
         /\ r.m.log = Append(log, <<"error", LibintError>>)

\* C3: with LibInt asked for and its root set, configureCommon goes by the
\* major version of LibInt: for "1" it adds three archives to LIBS, for "2" it
\* adds one, for any other it raises a configuration error and builds no options
C3_LibintByMajorVersion ==
    LibintReached =>
        /\ pc = "configure" => LibintBranch(configureCommon(Machine))
        /\ ConfigureDone =>
               /\ LibintMajor \in {<<"1">>, <<"2">>}
               /\ ArchiveCount(options["LIBS"]) = (IF LibintMajor = <<"1">> THEN 3 ELSE 1)
        /\ pc # "configure" /\ LibintMajor \notin {<<"1">>, <<"2">>} =>
               ConfigureFailed /\ options = NoOptions /\ fs.files = NoFiles

\* configure ran with LibInt 1 and put its three archives into LIBS
C3_ThreeArchives ==
    /\ ConfigureDone
    /\ LibintReached
    /\ LibintMajor = <<"1">>
    /\ ArchiveCount(options["LIBS"]) = 3

\* what a call of configureCommon that returned r did about MPI
MpiChecked(r) ==
    IF NoMpiMarker
    THEN r.err = MpiError /\ r.options = NoOptions /\ r.m.log = Append(log, <<"error", MpiError>>)
    ELSE r.err # MpiError /\ <<"error", MpiError>> \notin {r.m.log[i] : i \in 1..Len(r.m.log)}

\* C9: configureCommon raises its MPI-2 configuration error, and builds no
\* options, exactly when none of SOFTROOTIMPI, SOFTROOTMVAPICH2 and
\* SOFTROOTOPENMPI is set to a value (an empty value counts as not set); with
\* one of them set the MPI-2 check passes
C9_Mpi2Needed ==
    /\ pc = "configure" => MpiChecked(configureCommon(Machine))
    /\ err = MpiError => NoMpiMarker /\ ConfigureFailed /\ options = NoOptions /\ fs.files = NoFiles
    /\ NoMpiMarker /\ pc # "configure" => ConfigureFailed
    /\ NoMpiMarker /\ pc # "configure" /\ tk.comp_family \in {"Intel", "GCC"} /\ ~ModincSet(cfg.modinc) =>
           err = MpiError

\* configure failed for want of MPI-2, one marker set but empty
C9_NoMpi ==
    /\ ConfigureFailed
    /\ err = MpiError
    /\ env["SOFTROOTIMPI"] = <<>>
    /\ env["SOFTROOTOPENMPI"] = None

----------------------------------------------------------------------------
(* Properties of test *)

\* test ran, in this step or an earlier one
TestRan == step \in {"test", "make_install", "sanitycheck"}

\* test raised
TestFailed == pc = "failed" /\ step = "test"

\* the harness ran and returned 0: test() got to the summary
SummaryRead ==
    /\ TestRan
    /\ cfg.runtest
    /\ world.ec["regtest"] = 0
    /\ <<"info", "Regression test output">> \in {log[i] : i \in 1..Len(log)}

Categories == <<"FAILED", "WRONG", "NEW", "CORRECT">>

\* the count the harness gave for a line, -1 when it gave no such line
CountOf(line) == world.counts[line]

\* the log holds the report on a category at this level
Reported(level, category) == <<level, ReportMsg(category)>> \in {log[i] : i \in 1..Len(log)}

\* test() took a decision on the category: it reported on it at some level
Decided(category) == \E level \in {"info", "warning", "error"} : Reported(level, category)

\* the category's report was made and did not raise
Passed(category) == Reported("info", category) \/ Reported("warning", category)

\* test() got to the report on the WRONG tests with a total to divide by
WrongJudged ==
    /\ SummaryRead
    /\ CountOf("TOTAL") > 0
    /\ CountOf("WRONG") >= 0
    /\ Passed("FAILED")

\* C4 as stated: WRONG tests are a problem when they are more than a tenth of
\* the total (50 of 100 are, 5 of 100 are not); test() is then fatal unless
\* ignore_regtest_fails is set, which makes it a warning
C4_WrongAboveTenthFatal ==
    WrongJudged =>
        IF 10 * CountOf("WRONG") > CountOf("TOTAL")
        THEN IF cfg.ignore_regtest_fails
             THEN Reported("warning", "WRONG") /\ ~Reported("error", "WRONG")
             ELSE TestFailed /\ err = ReportMsg("WRONG") /\ Reported("error", "WRONG")
        ELSE ~Reported("error", "WRONG") /\ err # ReportMsg("WRONG")

\* test() went on from a category to the ones after it: each is looked for in
\* turn until one raises
WentOnFrom(i) ==
    \A j \in (i + 1)..4 :
        (\A k \in (i + 1)..(j - 1) : Passed(Categories[k])) =>
            \/ Decided(Categories[j])
            \/ err = ParseMsg(Categories[j])
            \/ (Categories[j] = "WRONG" /\ err = "ZeroDivisionError")

\* C5: a FAILED count above zero is fatal, unless ignore_regtest_fails is set:
\* then it is logged as a warning and test() goes on to WRONG, NEW and CORRECT;
\* a FAILED count of zero is never fatal
C5_FailedFatalUnlessIgnored ==
    SummaryRead /\ CountOf("TOTAL") >= 0 /\ CountOf("FAILED") >= 0 =>
        /\ CountOf("FAILED") > 0 /\ ~cfg.ignore_regtest_fails =>
               /\ TestFailed
               /\ err = ReportMsg("FAILED")
               /\ Reported("error", "FAILED")
               /\ \A j \in 2..4 : ~Decided(Categories[j])
        /\ CountOf("FAILED") > 0 /\ cfg.ignore_regtest_fails =>
               /\ Reported("warning", "FAILED")
               /\ ~Reported("error", "FAILED")
               /\ err # ReportMsg("FAILED")
               /\ WentOnFrom(1)
        /\ CountOf("FAILED") = 0 =>
               /\ Reported("info", "FAILED")
               /\ ~Reported("warning", "FAILED")
               /\ ~Reported("error", "FAILED")
               /\ err # ReportMsg("FAILED")
               /\ WentOnFrom(1)

\* test() let two failed tests pass as a warning and reported on all four
\* categories
C5_FailuresIgnored ==
    /\ SummaryRead
    /\ cfg.ignore_regtest_fails
    /\ CountOf("FAILED") = 2
    /\ Reported("warning", "FAILED")
    /\ Decided("CORRECT")
    /\ ~TestFailed

Missing == {i \in 1..4 : CountOf(Categories[i]) = -1}

FirstMissing == CHOOSE i \in Missing : \A j \in Missing : i <= j

\* C7: a summary without the line of the total is a fatal parse error; a
\* summary with the total but without the line of a category is fatal as well,
\* with the parse error of the first such category unless the report on an
\* earlier category ended test() before; no decision is taken on a category
\* without a line
C7_MissingLineFatal ==
    SummaryRead =>
        /\ CountOf("TOTAL") = -1 =>
               /\ TestFailed
               /\ err = TotalParseMsg
               /\ \A i \in 1..4 : ~Decided(Categories[i])
        /\ CountOf("TOTAL") >= 0 /\ Missing # {} =>
               /\ TestFailed
               /\ \/ err = ParseMsg(Categories[FirstMissing])
                  \/ \E j \in 1..(FirstMissing - 1) : err = ReportMsg(Categories[j]) /\ j <= 2
                  \/ (err = "ZeroDivisionError" /\ FirstMissing > 2 /\ CountOf("TOTAL") = 0)
               /\ (\A j \in 1..(FirstMissing - 1) : Passed(Categories[j])) =>
                      err = ParseMsg(Categories[FirstMissing])
        /\ \A i \in Missing : ~Decided(Categories[i])

\* test() failed on a summary that has the total and no line for the new tests
C7_NoNewLine ==
    /\ SummaryRead
    /\ CountOf("TOTAL") = 100
    /\ Missing = {3}
    /\ TestFailed
    /\ err = ParseMsg("NEW")
    /\ Passed("WRONG")

----------------------------------------------------------------------------
(* Properties of make, and of a build without the regression test *)

\* make got as far as running its commands: it found the makefiles
\* directory and patched the Makefile
MakeReached ==
    /\ step \in {"make", "test", "make_install", "sanitycheck"}
    /\ "makefiles" \in fs.dirs
    /\ ~(Truthy(cfg.parallel) /\ "Makefile" \in world.fail)

\* make raised
MakeFailed == pc = "failed" /\ step = "make"

\* "make %s" % makeopts, as make built it
MakeCommand == <<"make", " ">> \o cfg.makeopts

CleanCommand == MakeCommand \o <<" ", "clean">>

NoHarnessTrace ==
    /\ <<"cp2k_regtest.cfg">> \notin DOMAIN fs.files
    /\ <<"do_regtest", ".orig.refout">> \notin fs.patched
    /\ \A i \in 1..Len(cmds) : ~Contains(cmds[i], <<" -nocvs -quick -nocompile -config ">>)
    /\ self.postmsg = <<>>
    /\ \A c \in fs.copied : c[2] # "installdir"

\* the test step of a build with runtest off changes nothing
TestStepIdle ==
    pc = "test" /\ ~cfg.runtest =>
        /\ pc' = "make_install"
        /\ err' = err
        /\ fs' = fs
        /\ cmds' = cmds
        /\ cwd' = cwd
        /\ self' = self
        /\ log' = log

\* C8: with runtest off, test() writes no harness configuration, patches no
\* script, runs no harness and leaves the working directory and postmsg as
\* they are, and make_install copies no directory of regression test results
C8_NoTestNoTrace == [][TestStepIdle]_vars /\ [](~cfg.runtest => NoHarnessTrace)

\* a build with runtest off got past make_install with a directory of
\* regression test results in the build directory
C8_InstalledUntested ==
    /\ ~cfg.runtest
    /\ step = "make_install"
    /\ pc = "sanitycheck"
    /\ Len(world.builddir_entries) = 3
    /\ cwd # self.builddir
    /\ NoHarnessTrace

----------------------------------------------------------------------------
(* Properties of make_install *)

TestsCopy == <<<<"tests">>, "installdir/tests">>

WontCopy == <<"info", "Won't copy tests. Destination directory already exists">>

\* make_install gets past the copy of the executables
ExecutablesCopied == "exedir" \in fs.dirs /\ "copy_exe" \notin world.fail

\* what a make_install step does about the tests, by the destination it finds
TestsStep ==
    pc = "make_install" /\ ExecutablesCopied =>
        IF "installdir/tests" \in fs.dirs
        THEN /\ TestsCopy \notin fs.copied'
             /\ log' # log
             /\ WontCopy \in {log'[i] : i \in 1..Len(log')}
             /\ <<"error", "Copying tests failed">> \notin {log'[i] : i \in 1..Len(log')}
             /\ err' # "Copying tests failed"
        ELSE /\ WontCopy \notin {log'[i] : i \in 1..Len(log')}
             /\ IF "copy_tests" \in world.fail
                THEN /\ pc' = "failed"
                     /\ err' = "Copying tests failed"
                     /\ TestsCopy \notin fs.copied'
                ELSE /\ TestsCopy \in fs.copied'
                     /\ "installdir/tests" \in fs.dirs'
                     /\ err' # "Copying tests failed"

\* C11: make_install does not try to copy the tests when <install>/tests is
\* there already, and raises no error for the tests then, it only logs an
\* info; it copies the tests only when the destination is not there, and a
\* copy that fails is fatal
C11_TestsCopiedOnlyOnce == [][TestsStep]_vars /\ [](TestsCopy \in fs.copied => step = "make_install" \/ step = "sanitycheck")

\* make_install returned with the tests left as they were, on a machine where
\* a copy of the tests would have failed
C11_TestsLeftAlone ==
    /\ step = "make_install"
    /\ pc = "sanitycheck"
    /\ "copy_tests" \in world.fail
    /\ WontCopy \in {log[i] : i \in 1..Len(log)}
    /\ TestsCopy \notin fs.copied

----------------------------------------------------------------------------
(* Properties of the arch file *)

\* where the line of text that holds index s ends: at its line end, or after
\* the last atom of a text that ends without one
LineEnd(text, s) ==
    IF \E i \in s..Len(text) : text[i] = "\n"
    THEN CHOOSE i \in s..Len(text) : text[i] = "\n" /\ \A j \in s..(i - 1) : text[j] # "\n"
    ELSE Len(text) + 1

\* where the lines "KEY = VALUE" of a text start
KeyValueStarts(text) ==
    {s \in 1..(Len(text) - 1) : (s = 1 \/ text[s - 1] = "\n") /\ text[s] # "\n" /\ text[s + 1] = " = "}

\* the mapping read back from a text: a line "KEY = VALUE" gives KEY the text
\* after the first " = ", as it stands, blanks kept; other lines give nothing
ParseStarts(text, starts) ==
    [k \in {text[s] : s \in starts} |->
        SubSeq(text, (CHOOSE s \in starts : text[s] = k) + 2,
               LineEnd(text, CHOOSE s \in starts : text[s] = k) - 1)]

ParseArchfile(text) == ParseStarts(text, KeyValueStarts(text))

\* configure wrote the arch file
ArchfileWritten == ConfigureDone /\ archfile(Machine) \in DOMAIN fs.files

ArchfileText == fs.files[archfile(Machine)]

\* the options with every value as "%s" writes it
Written(o) == [k \in DOMAIN o |-> Str(o[k])]

\* C12 as stated: the arch file read back gives the very mapping it was
\* written from, the same keys with the same values, for every mapping
\* configure builds, values from unset environment variables included
C12_ArchfileReadsBack == ArchfileWritten => ParseArchfile(ArchfileText) = options

\* C12, amended: the arch file read back gives the keys of the mapping it was
\* written from, each with its value as "%s" writes it: the same value where
\* the value is a string (empty, or with blanks at its ends, or with the text
\* None in it for an unset variable), and the string None where the value is
\* None, which is what CC is when MPICC is unset
C12_ArchfileReadsBackAsText ==
    ArchfileWritten =>
        /\ ParseArchfile(ArchfileText) = Written(options)
        /\ DOMAIN ParseArchfile(ArchfileText) = DOMAIN options
        /\ options["CC"] # None => ParseArchfile(ArchfileText) = options
        /\ options["CC"] = None => ParseArchfile(ArchfileText)["CC"] = <<"None">>
        /\ \A k \in DOMAIN options : options[k] = None => k = "CC" /\ env["MPICC"] = None

\* configure wrote an arch file with an empty value, a value with blanks at
\* both ends and a value made from an unset variable, and it reads back as
\* it was
C12_ReadBack ==
    /\ ArchfileWritten
    /\ options["CPP"] = <<>>
    /\ StartsWith(options["CFLAGS"], SP) /\ EndsWith(options["CFLAGS"], SP)
    /\ env["MPIF77"] = None /\ StartsWith(options["FC"], <<"None">>)
    /\ env["MPICC"] # None
    /\ world.dictorder = "backward"
    /\ ParseArchfile(ArchfileText) = options

----------------------------------------------------------------------------
(* Properties of configure as a whole *)

\* the errors configure gives up with before it has its options
ConfigurationErrors ==
    {"Don't know how to tweak configuration for compiler used.",
     MpiError,
     "LibInt module not loaded.",
     LibintError,
     "CP2K won't build correctly with the Intel v12 compilers before version 2011.8.",
     "prepmodinc: Please specify either a boolean value or a list of files in modinc"}

WriteError == "Writing makefile failed"

\* a configure step: when it raises, for any reason but the writing itself,
\* the files are as they were; when it returns, the arch file is the one file
\* it wrote, it holds the options configure ended with, LIBS regrouped, and
\* writing it was the last thing configure logged
ConfigureWritesLast ==
    pc = "configure" =>
        IF pc' = "failed"
        THEN err' # WriteError => fs'.files = fs.files
        ELSE /\ archfile(Machine)' \in DOMAIN fs'.files
             /\ \A f \in DOMAIN fs'.files \ {archfile(Machine)'} :
                    f \in DOMAIN fs.files /\ fs'.files[f] = fs.files[f]
             /\ DOMAIN fs.files \subseteq DOMAIN fs'.files
             /\ ParseArchfile(fs'.files[archfile(Machine)']) = Written(options')
             /\ StartsWith(options'["LIBS"], StartGroup)
             /\ EndsWith(options'["LIBS"], EndGroup)
             /\ log'[Len(log')] = <<"info", "Content of makefile">>

\* C13: configure writes the arch file as its last action, once every layer
\* of options is on and LIBS is regrouped; when configure gives up with a
\* configuration error (compiler family not known, no MPI-2 library, LibInt not
\* loaded, LibInt version not known, Intel compiler rejected, modinc setting
\* not supported) the arch file is neither created nor changed
C13_ArchfileWrittenLast ==
    /\ [][ConfigureWritesLast]_vars
    /\ [](ConfigureFailed /\ err # WriteError => \A f \in DOMAIN fs.files : fs.files[f] = OldArchfile)
    /\ [](ConfigureFailed /\ err \in ConfigurationErrors => options = NoOptions)

\* configure gave up on an Intel compiler it rejects, in a tree that holds the
\* arch file of an earlier build, which is still as it was
C13_OldArchfileKept ==
    /\ ConfigureFailed
    /\ err = "CP2K won't build correctly with the Intel v12 compilers before version 2011.8."
    /\ DOMAIN fs.files # {}
    /\ \A f \in DOMAIN fs.files : fs.files[f] = OldArchfile

----------------------------------------------------------------------------
(* Properties of the Intel compilers *)

IntelError == "CP2K won't build correctly with the Intel v12 compilers before version 2011.8."

\* the versions of ifort from 2011 up to 2011.8, those from 2011.8 on and
\* those before 2011
IfortRejected == {<<"2011">>, <<"2011", ".", "5">>}
IfortNew == {<<"2011", ".", "8">>, <<"2011", ".", "10">>, <<"2012">>, <<"2012", ".", "0">>}
IfortOld == {<<"2010">>}

\* how often a rule stands in the footer of the arch file
RuleCount(rule) == Cardinality(Occurrences(self.make_instructions, rule))

\* configure got to the Intel compilers' version: nothing before it raised
IntelReached ==
    /\ tk.comp_family = "Intel"
    /\ pc # "configure"
    /\ ~(ConfigureFailed /\ err # IntelError)

\* what holds of the Intel compilers but for the count of the rules
IntelGate ==
    IntelReached =>
        /\ env["SOFTVERSIONIFORT"] \in IfortRejected => ConfigureFailed /\ err = IntelError
        /\ env["SOFTVERSIONIFORT"] \in IfortNew => ConfigureDone /\ RuleCount(EtCouplingRule) >= 1
        /\ env["SOFTVERSIONIFORT"] \in IfortOld => ConfigureDone /\ RuleCount(EtCouplingRule) = 0

\* C14 as stated: an ifort from 2011 up to 2011.8 is a fatal configuration
\* error, an ifort from 2011.8 on adds the rule for et_coupling.o, an ifort
\* before 2011 adds neither, and the footer of every accepted case holds each
\* of the rules for graphcon.o, qs_vxc_atom.o and et_coupling.o at most once
C14_IntelRulesOnce ==
    /\ IntelGate
    /\ IntelReached /\ ConfigureDone =>
           /\ RuleCount(GraphconRule) <= 1
           /\ RuleCount(QsVxcAtomRule) <= 1
           /\ RuleCount(EtCouplingRule) <= 1

====
